---- MODULE Spec2Model ----
(***************************************************************************)
(* Deterministic replay buffer of the Laplace's Demon lesson               *)
(* (src/src/pages/LessonView.tsx), driven by the TimelineScrubber bar      *)
(* (src/src/simulations/shared/TimelineScrubber.tsx), the playback         *)
(* controls and the Canvas2D frame loop (src/unnamed/part_001).            *)
(*                                                                         *)
(* JavaScript objects are modelled by a heap: `heap` is the sequence of    *)
(* allocated particle objects, and `particles` and every entry of          *)
(* `history` are sequences of addresses into it.  Copying an object        *)
(* allocates a new address; mutating a particle rewrites its heap cell, so *)
(* that every reference to the same object sees the change.                *)
(***************************************************************************)
EXTENDS Integers, Sequences, FiniteSets, TLC

\* ------------------------------------------------------------------------
\* Bounds of the model
\* ------------------------------------------------------------------------

\* Capacity of the history buffer (300 in the source, scaled down).
HISTORY_MAX == 3

\* Canvas size (600 x 400 in the source, scaled down so that walls are near).
CanvasWidth == 64

CanvasHeight == 64

\* Largest number of physics steps executed in one behaviour.
MaxTicks == 4

\* Width in pixels of the scrubber bar (rect.width).
BarWidth == 2

\* Largest absolute value of a real or imaginary part.
MaxPart == 3

\* Most users Firebase holds for delivery to the auth listener at a time.
MaxReports == 2

\* ------------------------------------------------------------------------
\* Program constants
\* ------------------------------------------------------------------------

Max(a, b) == IF a > b THEN a ELSE b

Min(a, b) == IF a < b THEN a ELSE b

\* Distance kept between a particle and the canvas edge.
WallMargin == 10

\* Distance kept between a spawned particle and the canvas edge.
SpawnMargin == 50

\* Speed multipliers selectable on the speed slider (0.1 .. 3, step 0.1);
\* the integer ones that the model uses.
Speeds == {1, 3}

\* p.random(SpawnMargin, size - SpawnMargin): p5 swaps the two limits when the
\* first is the larger, and returns a number from the lower limit up to, but
\* not including, the upper one.  The lowest and the highest integer of it.
SpawnLow(size) == Min(SpawnMargin, size - SpawnMargin)

SpawnHigh(size) == Max(SpawnMargin, size - SpawnMargin) - 1

\* Initial particle collections produced by initParticles: x and y drawn
\* from the spawn range, vx and vy from [-2, 2).
InitParticleSets ==
  { << [ x |-> SpawnHigh(CanvasWidth), y |-> SpawnLow(CanvasHeight), vx |-> 1, vy |-> 0 - 2 ] >>,
    << [ x |-> SpawnLow(CanvasWidth), y |-> SpawnHigh(CanvasHeight), vx |-> 0 - 2, vy |-> 1 ],
       [ x |-> SpawnLow(CanvasWidth) + 1, y |-> SpawnLow(CanvasHeight), vx |-> 0, vy |-> 0 - 1 ] >> }

\* Pointer positions relative to the left edge of the bar (clientX - rect.left).
PointerOffsets == (0 - 1) .. (BarWidth + 1)

\* Frame indices handed to handleScrub when the controller is driven directly.
ScrubTargets == (0 - 2) .. (HISTORY_MAX + 1)

VARIABLES
  heap,                \* allocated particle objects, by address 1..Len(heap)
  particles,           \* LessonView: let particles (addresses)
  history,             \* LessonView: let history (sequence of snapshots)
  currentIndex,        \* LessonView: let currentIndex
  scrubbing,           \* LessonView: let scrubbing
  playing,             \* LessonView: playing signal
  speed,               \* LessonView: speed signal
  scrubHistoryLength,  \* LessonView: reactive mirror of history.length
  scrubCurrentIndex,   \* LessonView: reactive mirror of currentIndex
  isDragging,          \* TimelineScrubber: let isDragging
  listening,           \* TimelineScrubber: window mousemove/mouseup listeners attached
  started,             \* Canvas2D: p5 has run setup
  ticks,               \* number of physics steps executed so far
  lastOp,              \* the kind of handler that ran last
  lastArg,             \* the frame index it handed to handleScrub, if any
  pending,             \* << t >>: the last scrub of the gesture was scrub(t), only frames since
  again,               \* the last handler was a scrub with the target of the scrub before it
  wasPaused,           \* the last handler was a release and found the simulation paused
  resume,              \* what the last release of a scrub resumed from
  recording,           \* the scrubber's events and callbacks are being recorded
  event,               \* TimelineScrubber: the DOM event handled last, if any
  emitted,             \* TimelineScrubber: the callbacks its handler called, in order
  authUser,            \* auth store: authState.user (uid, or NoUser for null)
  authLoading,         \* auth store: authState.loading
  isGuest,             \* auth store: authState.isGuest
  currentUser,         \* Firebase Auth: the user of the session (auth.currentUser)
  booted,              \* index.tsx has run initAuth(); initProgress()
  reports,             \* Firebase Auth: users still to be delivered to the listener
  popup,               \* loginWithGoogle: signInWithPopup is in flight
  logoutAt,            \* logout: "idle", "signOut" (awaiting it) or "resume"
  progress,            \* progress store: where initProgress took the progress from
  storeOp,             \* the kind of store step that ran last
  calcZ,               \* complex: first operand
  calcW,               \* complex: second operand
  calcResult,          \* complex: result of the last multiply
  calcOp               \* complex: the operation that ran last

lessonVars == << heap, particles, history, currentIndex, scrubbing, playing, speed,
                 scrubHistoryLength, scrubCurrentIndex, isDragging, listening,
                 started, ticks, lastOp, lastArg, pending, again, wasPaused,
                 resume, recording, event, emitted >>

storeVars == << authUser, authLoading, isGuest, currentUser, booted, reports,
                popup, logoutAt, progress, storeOp >>

complexVars == << calcZ, calcW, calcResult, calcOp >>

vars == << lessonVars, storeVars, complexVars >>

\* ------------------------------------------------------------------------
\* Helpers
\* ------------------------------------------------------------------------

\* p5 constrain(n, low, high)
Constrain(n, low, high) == Max(Min(n, high), low)

RECURSIVE Flatten(_)
Flatten(ss) == IF ss = << >> THEN << >> ELSE Head(ss) \o Flatten(Tail(ss))

RECURSIVE Dedup(_, _)
Dedup(s, seen) ==
  IF s = << >> THEN << >>
  ELSE IF Head(s) \in seen THEN Dedup(Tail(s), seen)
       ELSE << Head(s) >> \o Dedup(Tail(s), seen \cup {Head(s)})

\* The closure state of one LessonView instance, as a record.
Ctl ==
  [ heap |-> heap, particles |-> particles, history |-> history,
    currentIndex |-> currentIndex, scrubbing |-> scrubbing, playing |-> playing,
    scrubHistoryLength |-> scrubHistoryLength,
    scrubCurrentIndex |-> scrubCurrentIndex ]

\* Garbage collection: objects no longer referenced are dropped and the
\* remaining ones are numbered in order of first reference (history first,
\* oldest snapshot first, then the live particles).  Object identity is the
\* only thing an address carries, so the renumbering is unobservable.
Collect(c) ==
  LET order == Dedup(Flatten(c.history) \o c.particles, {})
      ren(a) == CHOOSE i \in 1 .. Len(order) : order[i] = a
  IN  [ c EXCEPT
          !.heap = [ i \in 1 .. Len(order) |-> c.heap[order[i]] ],
          !.particles = [ i \in 1 .. Len(c.particles) |-> ren(c.particles[i]) ],
          !.history = [ i \in 1 .. Len(c.history) |->
                          [ j \in 1 .. Len(c.history[i]) |-> ren(c.history[i][j]) ] ] ]

\* The values of the objects a sequence of addresses refers to.
ValuesOf(h, addrs) == [ i \in 1 .. Len(addrs) |-> h[addrs[i]] ]

\* The live entities, by value.
LiveValues == ValuesOf(heap, particles)

\* The buffer, by value: one sequence of particle values per snapshot.
HistoryValues == [ i \in 1 .. Len(history) |-> ValuesOf(heap, history[i]) ]

\* `new ...` of one object per value; returns the heap and the new addresses.
Allocate(h, vals) ==
  [ heap |-> h \o vals,
    addrs |-> [ i \in 1 .. Len(vals) |-> Len(h) + i ] ]

\* ------------------------------------------------------------------------
\* LessonView: snapshot codec, history buffer, frame driver, scrub callbacks
\* ------------------------------------------------------------------------

\* Mutant: a copy-paste slip in the object literal, vx and vy are exchanged.
snapshot_swapped(c) ==
  Allocate(c.heap,
           [ i \in 1 .. Len(c.particles) |->
               [ x  |-> c.heap[c.particles[i]].x,  y  |-> c.heap[c.particles[i]].y,
                 vx |-> c.heap[c.particles[i]].vy, vy |-> c.heap[c.particles[i]].vx ] ])

\* particles.map((p) => ({ x: p.x, y: p.y, vx: p.vx, vy: p.vy }))
snapshot(c) ==
  Allocate(c.heap,
           [ i \in 1 .. Len(c.particles) |->
               [ x  |-> c.heap[c.particles[i]].x,  y  |-> c.heap[c.particles[i]].y,
                 vx |-> c.heap[c.particles[i]].vx, vy |-> c.heap[c.particles[i]].vy ] ])

\* Mutant: particles = snap, the live entities are the snapshot's own objects.
restoreSnapshot_alias(c, snap) == [ c EXCEPT !.particles = snap ]

\* particles = snap.map((p) => ({ ...p }))
restoreSnapshot(c, snap) ==
  LET a == Allocate(c.heap, ValuesOf(c.heap, snap))
  IN  [ c EXCEPT !.heap = a.heap, !.particles = a.addrs ]

\* Mutant: the eviction test is off by one (length > HISTORY_MAX + 1).
pushHistory_noEvict(c) ==
  LET s  == snapshot(c)
      h1 == Append(c.history, s.addrs)
      h2 == IF Len(h1) > HISTORY_MAX + 1 THEN Tail(h1) ELSE h1
  IN  [ c EXCEPT !.heap = s.heap,
                 !.history = h2,
                 !.currentIndex = Len(h2) - 1,
                 !.scrubHistoryLength = Len(h2),
                 !.scrubCurrentIndex = Len(h2) - 1 ]

\* Mutant: history.pop() for history.shift(), the newest entry is dropped.
pushHistory_dropNewest(c) ==
  LET s  == snapshot(c)
      h1 == Append(c.history, s.addrs)
      h2 == IF Len(h1) > HISTORY_MAX THEN SubSeq(h1, 1, Len(h1) - 1) ELSE h1
  IN  [ c EXCEPT !.heap = s.heap,
                 !.history = h2,
                 !.currentIndex = Len(h2) - 1,
                 !.scrubHistoryLength = Len(h2),
                 !.scrubCurrentIndex = Len(h2) - 1 ]

\* Mutant: the cursor is computed before the oldest snapshot is shifted out.
pushHistory_cursorFirst(c) ==
  LET s  == snapshot(c)
      h1 == Append(c.history, s.addrs)
      h2 == IF Len(h1) > HISTORY_MAX THEN Tail(h1) ELSE h1
  IN  [ c EXCEPT !.heap = s.heap,
                 !.history = h2,
                 !.currentIndex = Len(h1) - 1,
                 !.scrubHistoryLength = Len(h2),
                 !.scrubCurrentIndex = Len(h1) - 1 ]

pushHistory(c) ==
  LET s  == snapshot(c)
      h1 == Append(c.history, s.addrs)
      h2 == IF Len(h1) > HISTORY_MAX THEN Tail(h1) ELSE h1
  IN  [ c EXCEPT !.heap = s.heap,
                 !.history = h2,
                 !.currentIndex = Len(h2) - 1,
                 !.scrubHistoryLength = Len(h2),
                 !.scrubCurrentIndex = Len(h2) - 1 ]

initParticles(c, vals) ==
  LET a == Allocate(c.heap, vals)
  IN  pushHistory([ c EXCEPT !.heap = a.heap, !.particles = a.addrs,
                             !.history = << >>, !.currentIndex = 0 ])

\* Body of the physics loop of draw, for one particle: move, then reflect
\* and constrain on each axis.
PhysicsStep(p, s) ==
  LET x1 == p.x + p.vx * s
      y1 == p.y + p.vy * s
      bx == x1 < WallMargin \/ x1 > CanvasWidth - WallMargin
      by == y1 < WallMargin \/ y1 > CanvasHeight - WallMargin
  IN  [ x  |-> IF bx THEN Constrain(x1, WallMargin, CanvasWidth - WallMargin) ELSE x1,
        y  |-> IF by THEN Constrain(y1, WallMargin, CanvasHeight - WallMargin) ELSE y1,
        vx |-> IF bx THEN 0 - p.vx ELSE p.vx,
        vy |-> IF by THEN 0 - p.vy ELSE p.vy ]

\* for (const particle of particles) { ... }: each object is updated in place.
RECURSIVE StepInPlace(_, _, _)
StepInPlace(h, addrs, s) ==
  IF addrs = << >> THEN h
  ELSE StepInPlace([ h EXCEPT ![Head(addrs)] = PhysicsStep(h[Head(addrs)], s) ],
                   Tail(addrs), s)

\* Mutant: the frame is recorded before the physics step.
draw_recordFirst(c, s) ==
  IF ~c.scrubbing
  THEN [ pushHistory(c) EXCEPT
           !.heap = StepInPlace(pushHistory(c).heap, pushHistory(c).particles, s) ]
  ELSE c

\* Mutant: the mode is not tested, a frame always steps and records.
draw_alwaysStep(c, s) ==
  pushHistory([ c EXCEPT !.heap = StepInPlace(c.heap, c.particles, s) ])

\* draw: the physics step and the recording; rendering has no effect on state.
draw(c, s) ==
  IF ~c.scrubbing
  THEN pushHistory([ c EXCEPT !.heap = StepInPlace(c.heap, c.particles, s) ])
  ELSE c

\* Mutant: starting a scrub also pauses the simulation.
handleScrubStart_pauses(c) == [ c EXCEPT !.scrubbing = TRUE, !.playing = FALSE ]

\* Mutant: the flag is toggled instead of set.
handleScrubStart_toggle(c) == [ c EXCEPT !.scrubbing = ~c.scrubbing ]

handleScrubStart(c) == [ c EXCEPT !.scrubbing = TRUE ]

\* Mutant: the cursor is moved but the snapshot is not restored.
handleScrub_noRestore(c, frameIndex) ==
  LET clamped == Max(0, Min(frameIndex, Len(c.history) - 1))
  IN  [ c EXCEPT !.currentIndex = clamped, !.scrubCurrentIndex = clamped ]

\* Mutant: the upper limit of the clamp is history.length.
handleScrub_clampToLength(c, frameIndex) ==
  LET clamped == Max(0, Min(frameIndex, Len(c.history)))
      c1 == [ c EXCEPT !.currentIndex = clamped, !.scrubCurrentIndex = clamped ]
  IN  IF clamped + 1 \in 1 .. Len(c.history)
      THEN restoreSnapshot(c1, c.history[clamped + 1])
      ELSE c1

\* Mutant: the lower limit of the clamp is missing.
handleScrub_noLowerClamp(c, frameIndex) ==
  LET clamped == Min(frameIndex, Len(c.history) - 1)
      c1 == [ c EXCEPT !.currentIndex = clamped, !.scrubCurrentIndex = clamped ]
  IN  IF clamped + 1 \in 1 .. Len(c.history)
      THEN restoreSnapshot(c1, c.history[clamped + 1])
      ELSE c1

\* Mutant: a scrub that finds no snapshot records the live state as one.
handleScrub_seedsEmpty(c, frameIndex) ==
  LET clamped == Max(0, Min(frameIndex, Len(c.history) - 1))
      c1 == [ c EXCEPT !.currentIndex = clamped, !.scrubCurrentIndex = clamped ]
  IN  IF clamped + 1 \in 1 .. Len(c.history)
      THEN restoreSnapshot(c1, c.history[clamped + 1])
      ELSE pushHistory(c1)

\* Mutant: frameIndex is taken as an offset from the cursor.
handleScrub_relative(c, frameIndex) ==
  LET clamped == Max(0, Min(c.currentIndex + frameIndex, Len(c.history) - 1))
      c1 == [ c EXCEPT !.currentIndex = clamped, !.scrubCurrentIndex = clamped ]
  IN  IF clamped + 1 \in 1 .. Len(c.history)
      THEN restoreSnapshot(c1, c.history[clamped + 1])
      ELSE c1

\* history[clamped] is undefined exactly when the buffer is empty.
handleScrub(c, frameIndex) ==
  LET clamped == Max(0, Min(frameIndex, Len(c.history) - 1))
      c1 == [ c EXCEPT !.currentIndex = clamped, !.scrubCurrentIndex = clamped ]
  IN  IF clamped + 1 \in 1 .. Len(c.history)
      THEN restoreSnapshot(c1, c.history[clamped + 1])
      ELSE c1

\* Mutant: playback is left as it was, setPlaying(true) is missing.
handleScrubEnd_keepPaused(c) ==
  LET h == SubSeq(c.history, 1, Min(c.currentIndex + 1, Len(c.history)))
  IN  [ c EXCEPT !.scrubbing = FALSE,
                 !.history = h,
                 !.scrubHistoryLength = Len(h),
                 !.scrubCurrentIndex = c.currentIndex ]

\* Mutant: the future is kept, history is not sliced.
handleScrubEnd_noTruncate(c) ==
  [ c EXCEPT !.scrubbing = FALSE,
             !.scrubHistoryLength = Len(c.history),
             !.scrubCurrentIndex = c.currentIndex,
             !.playing = TRUE ]

\* Mutant: setScrubHistoryLength is missing.
handleScrubEnd_staleLength(c) ==
  LET h == SubSeq(c.history, 1, Min(c.currentIndex + 1, Len(c.history)))
  IN  [ c EXCEPT !.scrubbing = FALSE,
                 !.history = h,
                 !.scrubCurrentIndex = c.currentIndex,
                 !.playing = TRUE ]

\* history.slice(0, currentIndex + 1)
handleScrubEnd(c) ==
  LET h == SubSeq(c.history, 1, Min(c.currentIndex + 1, Len(c.history)))
  IN  [ c EXCEPT !.scrubbing = FALSE,
                 !.history = h,
                 !.scrubHistoryLength = Len(h),
                 !.scrubCurrentIndex = c.currentIndex,
                 !.playing = TRUE ]

\* Mutant: the cursor and its mirror are not put back to 0.
handleReset_keepCursor(c) ==
  [ c EXCEPT !.particles = << >>, !.history = << >>,
             !.scrubHistoryLength = 0 ]

\* Mutant: Reset also leaves Scrubbing mode.
handleReset_endsScrub(c) ==
  [ c EXCEPT !.particles = << >>, !.history = << >>, !.currentIndex = 0,
             !.scrubHistoryLength = 0, !.scrubCurrentIndex = 0,
             !.scrubbing = FALSE ]

handleReset(c) ==
  [ c EXCEPT !.particles = << >>, !.history = << >>, !.currentIndex = 0,
             !.scrubHistoryLength = 0, !.scrubCurrentIndex = 0 ]

\* ------------------------------------------------------------------------
\* TimelineScrubber: pointer position to frame index
\* ------------------------------------------------------------------------

\* ratio = clamp((clientX - rect.left) / rect.width, 0, 1);
\* Math.round(ratio * (historyLength - 1)), Math.round being floor(v + 1/2).
\* Mutant: the ratio is not clamped to [0, 1].
frameFromMouseX_noClamp(offset, historyLength) ==
  (2 * offset * (historyLength - 1) + BarWidth) \div (2 * BarWidth)

frameFromMouseX(offset, historyLength) ==
  LET n == Constrain(offset, 0, BarWidth)
  IN  (2 * n * (historyLength - 1) + BarWidth) \div (2 * BarWidth)

\* ------------------------------------------------------------------------
\* TimelineScrubber: derived positions, as exact fractions
\* ------------------------------------------------------------------------

\* (a / b) * 100 in floating point: Infinity or NaN when b is 0.
Ratio100(a, b) ==
  IF b = 0
  THEN [ finite |-> FALSE, num |-> 0, den |-> 0 ]
  ELSE [ finite |-> TRUE, num |-> 100 * a, den |-> b ]

Percent0 == [ finite |-> TRUE, num |-> 0, den |-> 1 ]

filledPercent(historyLength, maxHistory) ==
  IF historyLength > 0 THEN Ratio100(historyLength, maxHistory) ELSE Percent0

\* Mutant: the historyLength > 1 test is missing.
playheadPercent_noGuard(index, historyLength) ==
  Ratio100(index, historyLength - 1)

playheadPercent(index, historyLength) ==
  IF historyLength > 1
  THEN Ratio100(index, historyLength - 1)
  ELSE Percent0

\* ------------------------------------------------------------------------
\* Bookkeeping of the handlers that ran
\* ------------------------------------------------------------------------


\* The handler that ran, and the frame index it handed to handleScrub.  A
\* scrub repeats the one before it when it has the same target and nothing
\* but frames, play/pause and speed changes happened in between.
Did(name, arg) ==
  /\ lastOp' = name
  /\ lastArg' = arg
  /\ pending' = IF name = "scrub" THEN << arg >>
                ELSE IF name \in {"drawScrubbing", "drawPaused", "idle", "scrubStartAgain"}
                THEN pending
                ELSE << >>
  /\ again' = (name = "scrub" /\ pending = << arg >>)
  /\ wasPaused' = (name = "release" /\ ~playing)

\* The DOM event a TimelineScrubber handler was called for and the props
\* callbacks it called.
Emits(ev, calls) ==
  /\ recording' = recording
  /\ IF recording
     THEN event' = ev /\ emitted' = calls
     ELSE UNCHANGED << event, emitted >>

NoResume ==
  [ active |-> FALSE, k |-> 0, base |-> << >>, j |-> 0, speed |-> 0 ]

\* The release of a scrub, seen from the state c in which handleScrubEnd is
\* called: a recorded run is resumed from index k when k is not the last index.
ResumeFrom(c) ==
  IF started /\ c.scrubbing /\ c.currentIndex < Len(c.history) - 1
  THEN [ active |-> TRUE, k |-> c.currentIndex,
         base |-> ValuesOf(c.heap, c.history[c.currentIndex + 1]),
         j |-> 0, speed |-> speed ]
  ELSE NoResume

\* The new values of the variables of the LessonView closure.
Commit(c) ==
  \E n \in { Collect(c) } :
      /\ heap' = n.heap
      /\ particles' = n.particles
      /\ history' = n.history
      /\ currentIndex' = n.currentIndex
      /\ scrubbing' = n.scrubbing
      /\ playing' = n.playing
      /\ scrubHistoryLength' = n.scrubHistoryLength
      /\ scrubCurrentIndex' = n.scrubCurrentIndex

ctlVars == << heap, particles, history, currentIndex, scrubbing, playing,
              scrubHistoryLength, scrubCurrentIndex >>

\* ------------------------------------------------------------------------
\* Complex numbers (core/complex), on integer parts
\* ------------------------------------------------------------------------

complex(re, im) == [ re |-> re, im |-> im ]

ZERO == complex(0, 0)

I == complex(0, 1)

ComplexInputs == { complex(a, b) : a, b \in (0 - MaxPart) .. MaxPart }

\* Mutant: the sign of the second product of the real part is wrong.
multiply_plus(z1, z2) ==
  [ re |-> z1.re * z2.re + z1.im * z2.im,
    im |-> z1.re * z2.im + z1.im * z2.re ]

multiply(z1, z2) ==
  [ re |-> z1.re * z2.re - z1.im * z2.im,
    im |-> z1.re * z2.im + z1.im * z2.re ]

conjugate(z) == [ re |-> z.re, im |-> 0 - z.im ]

magnitudeSquared(z) == z.re * z.re + z.im * z.im

InitComplex(inputs) ==
  /\ calcZ \in inputs
  /\ calcW = ZERO
  /\ calcResult = ZERO
  /\ calcOp = "none"

\* ------------------------------------------------------------------------
\* Auth store and progress store: state at page load
\* ------------------------------------------------------------------------

\* authState.user === null, auth.currentUser === null
NoUser == "none"

Users == { "u1" }

\* createStore({ user: null, loading: true, isGuest: false }); the session
\* Firebase has persisted is that of one of sessions.
InitStores(sessions) ==
  /\ authUser = NoUser
  /\ authLoading = TRUE
  /\ isGuest = FALSE
  /\ currentUser \in sessions
  /\ booted = FALSE
  /\ reports = << >>
  /\ popup = FALSE
  /\ logoutAt = "idle"
  /\ progress = "none"
  /\ storeOp = "none"

\* ------------------------------------------------------------------------
\* Initial state: the component has been created, p5 is still loading
\* ------------------------------------------------------------------------

InitLessonView ==
  /\ heap = << >>
  /\ particles = << >>
  /\ history = << >>
  /\ currentIndex = 0
  /\ scrubbing = FALSE
  /\ playing = TRUE
  /\ speed = 1
  /\ scrubHistoryLength = 0
  /\ scrubCurrentIndex = 0
  /\ isDragging = FALSE
  /\ listening = FALSE
  /\ started = FALSE
  /\ ticks = 0
  /\ lastOp = "init"
  /\ lastArg = 0
  /\ pending = << >>
  /\ again = FALSE
  /\ wasPaused = FALSE
  /\ resume = NoResume
  /\ event = "none"
  /\ emitted = << >>

Init ==
  /\ InitLessonView /\ InitStores({NoUser}) /\ InitComplex({ZERO})
  /\ recording = FALSE

\* ------------------------------------------------------------------------
\* Canvas2D
\* ------------------------------------------------------------------------

\* p.setup: createCanvas and the lesson's setup, which calls initParticles.
Setup ==
  /\ ~started
  /\ \E vals \in InitParticleSets : Commit(initParticles(Ctl, vals))
  /\ started' = TRUE
  /\ Did("setup", 0)
  /\ resume' = NoResume
  /\ UNCHANGED << speed, isDragging, listening, ticks >>
  /\ UNCHANGED << storeVars, complexVars >>
  /\ Emits("none", << >>)

\* Mutant: props.paused is not tested, the lesson's draw runs.
DrawPaused_runs ==
  /\ started
  /\ ~playing
  /\ Commit(draw(Ctl, speed))
  /\ Did("drawPaused", 0)
  /\ UNCHANGED << speed, isDragging, listening, started, ticks, resume >>
  /\ UNCHANGED << storeVars, complexVars >>
  /\ Emits("none", << >>)

\* p.draw while props.paused: returns before calling the lesson's draw.
DrawPaused ==
  /\ started
  /\ ~playing
  /\ Did("drawPaused", 0)
  /\ UNCHANGED << ctlVars, speed, isDragging, listening, started, ticks, resume >>
  /\ UNCHANGED << storeVars, complexVars >>
  /\ Emits("none", << >>)

\* p.draw while scrubbing: the lesson's draw renders only.
DrawScrubbing ==
  /\ started
  /\ playing
  /\ scrubbing
  /\ Commit(draw(Ctl, speed))
  /\ Did("drawScrubbing", 0)
  /\ UNCHANGED << speed, isDragging, listening, started, ticks, resume >>
  /\ UNCHANGED << storeVars, complexVars >>
  /\ Emits("none", << >>)

\* p.draw while advancing: physics step, then pushHistory.
DrawAdvancing ==
  /\ started
  /\ playing
  /\ ~scrubbing
  /\ ticks < MaxTicks
  /\ Commit(draw(Ctl, speed))
  /\ ticks' = ticks + 1
  /\ Did(IF Len(history) = HISTORY_MAX THEN "drawEvict" ELSE "draw", 0)
  /\ resume' = IF resume.active /\ Len(history) < HISTORY_MAX
               THEN [ resume EXCEPT !.j = resume.j + 1 ]
               ELSE NoResume
  /\ UNCHANGED << speed, isDragging, listening, started >>
  /\ UNCHANGED << storeVars, complexVars >>
  /\ Emits("none", << >>)

\* ------------------------------------------------------------------------
\* PlaybackControls
\* ------------------------------------------------------------------------

TogglePlay ==
  /\ playing' = ~playing
  /\ Did("idle", 0)
  /\ UNCHANGED << heap, particles, history, currentIndex, scrubbing, speed,
                  scrubHistoryLength, scrubCurrentIndex, isDragging, listening,
                  started, ticks, resume >>
  /\ UNCHANGED << storeVars, complexVars >>
  /\ Emits("none", << >>)

Reset ==
  /\ Commit(handleReset(Ctl))
  /\ Did("reset", 0)
  /\ resume' = NoResume
  /\ UNCHANGED << speed, isDragging, listening, started, ticks >>
  /\ UNCHANGED << storeVars, complexVars >>
  /\ Emits("none", << >>)

SpeedChange ==
  /\ \E s \in Speeds \ {speed} : speed' = s
  /\ Did("idle", 0)
  /\ resume' = NoResume
  /\ UNCHANGED << ctlVars, isDragging, listening, started, ticks >>
  /\ UNCHANGED << storeVars, complexVars >>
  /\ Emits("none", << >>)

\* ------------------------------------------------------------------------
\* TimelineScrubber event handlers
\* ------------------------------------------------------------------------

HandleMouseDown ==
  /\ \E x \in PointerOffsets :
       LET f == frameFromMouseX(x, scrubHistoryLength)
       IN  /\ Commit(handleScrub(handleScrubStart(Ctl), f))
           /\ Did("scrub", f)
  /\ isDragging' = TRUE
  /\ listening' = TRUE
  /\ resume' = NoResume
  /\ UNCHANGED << speed, started, ticks >>
  /\ UNCHANGED << storeVars, complexVars >>
  /\ Emits("mousedown", << "onScrubStart", "onScrub" >>)

\* Delivered only while the window listeners are attached.
HandleMouseMove ==
  /\ listening
  /\ isDragging
  /\ \E x \in PointerOffsets :
       LET f == frameFromMouseX(x, scrubHistoryLength)
       IN  /\ Commit(handleScrub(Ctl, f))
           /\ Did("scrub", f)
  /\ resume' = NoResume
  /\ UNCHANGED << speed, isDragging, listening, started, ticks >>
  /\ UNCHANGED << storeVars, complexVars >>
  /\ Emits("mousemove", << "onScrub" >>)

HandleMouseUp ==
  /\ listening
  /\ isDragging
  /\ \E x \in PointerOffsets :
       LET f == frameFromMouseX(x, scrubHistoryLength)
           c == handleScrub(Ctl, f)
       IN  /\ Commit(handleScrubEnd(c))
           /\ Did("release", f)
           /\ resume' = ResumeFrom(c)
  /\ isDragging' = FALSE
  /\ listening' = FALSE
  /\ UNCHANGED << speed, started, ticks >>
  /\ UNCHANGED << storeVars, complexVars >>
  /\ Emits("mouseup", << "onScrub", "onScrubEnd" >>)

\* A move or release of the mouse, or a touch move or end, outside a drag:
\* the handler returns at its first line.
HandleOutsideDrag ==
  /\ ~isDragging
  /\ Did("idle", 0)
  /\ UNCHANGED << ctlVars, speed, isDragging, listening, started, ticks, resume >>
  /\ UNCHANGED << storeVars, complexVars >>
  /\ Emits("outside", << >>)

HandleTouchStart ==
  /\ \E x \in PointerOffsets :
       LET f == frameFromMouseX(x, scrubHistoryLength)
       IN  /\ Commit(handleScrub(handleScrubStart(Ctl), f))
           /\ Did("scrub", f)
  /\ isDragging' = TRUE
  /\ resume' = NoResume
  /\ UNCHANGED << speed, listening, started, ticks >>
  /\ UNCHANGED << storeVars, complexVars >>
  /\ Emits("touchstart", << "onScrubStart", "onScrub" >>)

\* Mutant: the isDragging test is missing.
HandleTouchMove_unguarded ==
  /\ \E x \in PointerOffsets :
       LET f == frameFromMouseX(x, scrubHistoryLength)
       IN  /\ Commit(handleScrub(Ctl, f))
           /\ Did("scrub", f)
  /\ resume' = NoResume
  /\ UNCHANGED << speed, isDragging, listening, started, ticks >>
  /\ UNCHANGED << storeVars, complexVars >>
  /\ Emits("touchmove", << "onScrub" >>)

HandleTouchMove ==
  /\ isDragging
  /\ \E x \in PointerOffsets :
       LET f == frameFromMouseX(x, scrubHistoryLength)
       IN  /\ Commit(handleScrub(Ctl, f))
           /\ Did("scrub", f)
  /\ resume' = NoResume
  /\ UNCHANGED << speed, isDragging, listening, started, ticks >>
  /\ UNCHANGED << storeVars, complexVars >>
  /\ Emits("touchmove", << "onScrub" >>)

HandleTouchEnd ==
  /\ isDragging
  /\ Commit(handleScrubEnd(Ctl))
  /\ Did("release", currentIndex)
  /\ resume' = ResumeFrom(Ctl)
  /\ isDragging' = FALSE
  /\ UNCHANGED << speed, listening, started, ticks >>
  /\ UNCHANGED << storeVars, complexVars >>
  /\ Emits("touchend", << "onScrubEnd" >>)

\* ------------------------------------------------------------------------
\* The application
\* ------------------------------------------------------------------------

Next ==
  \/ Setup
  \/ DrawPaused
  \/ DrawScrubbing
  \/ DrawAdvancing
  \/ TogglePlay
  \/ Reset
  \/ SpeedChange
  \/ HandleMouseDown
  \/ HandleMouseMove
  \/ HandleMouseUp
  \/ HandleOutsideDrag
  \/ HandleTouchStart
  \/ HandleTouchMove
  \/ HandleTouchEnd

Spec == Init /\ [][Next]_vars

\* The application, with the scrubber's events and callbacks recorded.
InitBar ==
  /\ InitLessonView /\ InitStores({NoUser}) /\ InitComplex({ZERO})
  /\ recording = TRUE

SpecBar == InitBar /\ [][Next]_vars

\* ------------------------------------------------------------------------
\* The replay controller driven directly through the callbacks LessonView
\* hands out (onScrubStart, onScrub, onScrubEnd): gestures of a scrubStart,
\* any number of scrubs and a scrubEnd, with any frame index
\* ------------------------------------------------------------------------

CallScrubStart ==
  /\ Commit(handleScrubStart(Ctl))
  /\ Did(IF scrubbing THEN "scrubStartAgain" ELSE "scrubStart", 0)
  /\ resume' = NoResume
  /\ UNCHANGED << speed, isDragging, listening, started, ticks >>
  /\ UNCHANGED << storeVars, complexVars >>
  /\ Emits("none", << >>)

CallScrub ==
  /\ scrubbing
  /\ \E f \in ScrubTargets :
       /\ Commit(handleScrub(Ctl, f))
       /\ Did("scrub", f)
  /\ resume' = NoResume
  /\ UNCHANGED << speed, isDragging, listening, started, ticks >>
  /\ UNCHANGED << storeVars, complexVars >>
  /\ Emits("none", << >>)

CallScrubEnd ==
  /\ scrubbing
  /\ Commit(handleScrubEnd(Ctl))
  /\ Did("release", currentIndex)
  /\ resume' = ResumeFrom(Ctl)
  /\ UNCHANGED << speed, isDragging, listening, started, ticks >>
  /\ UNCHANGED << storeVars, complexVars >>
  /\ Emits("none", << >>)

NextCtl ==
  \/ Setup
  \/ DrawPaused
  \/ DrawScrubbing
  \/ DrawAdvancing
  \/ TogglePlay
  \/ Reset
  \/ SpeedChange
  \/ CallScrubStart
  \/ CallScrub
  \/ CallScrubEnd

SpecCtl == Init /\ [][NextCtl]_vars

\* ------------------------------------------------------------------------
\* The same, with onScrub also invoked outside a gesture
\* ------------------------------------------------------------------------

CallScrubAdvancing ==
  /\ ~scrubbing
  /\ \E f \in ScrubTargets :
       /\ Commit(handleScrub(Ctl, f))
       /\ Did("scrub", f)
  /\ resume' = NoResume
  /\ UNCHANGED << speed, isDragging, listening, started, ticks >>
  /\ UNCHANGED << storeVars, complexVars >>
  /\ Emits("none", << >>)

NextAny == NextCtl \/ CallScrubAdvancing

SpecAny == Init /\ [][NextAny]_vars

\* ------------------------------------------------------------------------
\* The stores: bootstrap, the auth listener and the exported auth actions,
\* called in any order once the page has booted
\* ------------------------------------------------------------------------

\* const uid = authState.user?.uid; Firestore if there is one, localStorage
\* if not.
initProgress(uid) == IF uid # NoUser THEN "firestore" ELSE "localStorage"

\* index.tsx: initAuth(); initProgress(); in one synchronous run.  The
\* listener registered by initAuth gets the initial user later, in a task of
\* its own.
Bootstrap ==
  /\ ~booted
  /\ booted' = TRUE
  /\ reports' = << currentUser >>
  /\ progress' = initProgress(authUser)
  /\ storeOp' = "bootstrap"
  /\ UNCHANGED << authUser, authLoading, isGuest, currentUser, popup, logoutAt >>
  /\ UNCHANGED << lessonVars, complexVars >>

\* Mutant: a report of a user leaves isGuest as it was.
AuthStateChanged_keepsGuest ==
  /\ booted
  /\ reports # << >>
  /\ LET user == Head(reports)
     IN  /\ IF user # NoUser
            THEN authUser' = user /\ authLoading' = FALSE /\ isGuest' = isGuest
            ELSE IF ~isGuest
                 THEN /\ authUser' = NoUser
                      /\ authLoading' = FALSE
                      /\ isGuest' = TRUE
                 ELSE UNCHANGED << authUser, authLoading, isGuest >>
         /\ storeOp' = IF user # NoUser THEN "reportUser" ELSE "reportNone"
  /\ reports' = Tail(reports)
  /\ UNCHANGED << currentUser, booted, popup, logoutAt, progress >>
  /\ UNCHANGED << lessonVars, complexVars >>

\* The callback given to onAuthStateChanged.
AuthStateChanged ==
  /\ booted
  /\ reports # << >>
  /\ LET user == Head(reports)
     IN  /\ IF user # NoUser
            THEN authUser' = user /\ authLoading' = FALSE /\ isGuest' = FALSE
            ELSE IF ~isGuest
                 THEN /\ authUser' = NoUser
                      /\ authLoading' = FALSE
                      /\ isGuest' = TRUE
                 ELSE UNCHANGED << authUser, authLoading, isGuest >>
         /\ storeOp' = IF user # NoUser THEN "reportUser" ELSE "reportNone"
  /\ reports' = Tail(reports)
  /\ UNCHANGED << currentUser, booted, popup, logoutAt, progress >>
  /\ UNCHANGED << lessonVars, complexVars >>

\* loginWithGoogle up to its await.
LoginWithGoogle ==
  /\ booted
  /\ ~popup
  /\ authLoading' = TRUE
  /\ popup' = TRUE
  /\ storeOp' = "login"
  /\ UNCHANGED << authUser, isGuest, currentUser, booted, reports, logoutAt,
                  progress >>
  /\ UNCHANGED << lessonVars, complexVars >>

\* signInWithPopup resolves: Firebase has a user and tells the listener; of
\* a sign-in of the user it already had it may or may not tell.
PopupSucceeds ==
  /\ popup
  /\ \E u \in Users :
       /\ currentUser' = u
       /\ \/ /\ Len(reports) < MaxReports
             /\ reports' = Append(reports, u)
          \/ /\ currentUser = u
             /\ reports' = reports
  /\ popup' = FALSE
  /\ storeOp' = "loginDone"
  /\ UNCHANGED << authUser, authLoading, isGuest, booted, logoutAt, progress >>
  /\ UNCHANGED << lessonVars, complexVars >>

\* signInWithPopup rejects: the catch block.
PopupFails ==
  /\ popup
  /\ authLoading' = FALSE
  /\ popup' = FALSE
  /\ storeOp' = "loginFailed"
  /\ UNCHANGED << authUser, isGuest, currentUser, booted, reports, logoutAt,
                  progress >>
  /\ UNCHANGED << lessonVars, complexVars >>

LoginAsGuest ==
  /\ booted
  /\ authUser' = NoUser
  /\ authLoading' = FALSE
  /\ isGuest' = TRUE
  /\ storeOp' = "guest"
  /\ UNCHANGED << currentUser, booted, reports, popup, logoutAt, progress >>
  /\ UNCHANGED << lessonVars, complexVars >>

\* logout up to its await.
Logout ==
  /\ booted
  /\ logoutAt = "idle"
  /\ logoutAt' = "signOut"
  /\ storeOp' = "logout"
  /\ UNCHANGED << authUser, authLoading, isGuest, currentUser, booted, reports,
                  popup, progress >>
  /\ UNCHANGED << lessonVars, complexVars >>

\* signOut resolves: Firebase has no user and tells the listener if it had one.
SignOutSucceeds ==
  /\ logoutAt = "signOut"
  /\ currentUser' = NoUser
  /\ IF currentUser # NoUser
     THEN Len(reports) < MaxReports /\ reports' = Append(reports, NoUser)
     ELSE reports' = reports
  /\ logoutAt' = "resume"
  /\ storeOp' = "signedOut"
  /\ UNCHANGED << authUser, authLoading, isGuest, booted, popup, progress >>
  /\ UNCHANGED << lessonVars, complexVars >>

\* signOut rejects: the catch block only logs.
SignOutFails ==
  /\ logoutAt = "signOut"
  /\ logoutAt' = "resume"
  /\ storeOp' = "signOutFailed"
  /\ UNCHANGED << authUser, authLoading, isGuest, currentUser, booted, reports,
                  popup, progress >>
  /\ UNCHANGED << lessonVars, complexVars >>

\* logout after its await.
LogoutResumes ==
  /\ logoutAt = "resume"
  /\ authUser' = NoUser
  /\ authLoading' = FALSE
  /\ isGuest' = TRUE
  /\ logoutAt' = "idle"
  /\ storeOp' = "logoutDone"
  /\ UNCHANGED << currentUser, booted, reports, popup, progress >>
  /\ UNCHANGED << lessonVars, complexVars >>

InitBoot ==
  /\ InitLessonView /\ InitStores({NoUser} \cup Users) /\ InitComplex({ZERO})
  /\ recording = FALSE

NextStore ==
  \/ Bootstrap
  \/ AuthStateChanged
  \/ LoginWithGoogle
  \/ PopupSucceeds
  \/ PopupFails
  \/ LoginAsGuest
  \/ Logout
  \/ SignOutSucceeds
  \/ SignOutFails
  \/ LogoutResumes

SpecStore == InitBoot /\ [][NextStore]_vars

\* ------------------------------------------------------------------------
\* Complex numbers: the operations applied to operands with integer parts
\* ------------------------------------------------------------------------

CalcConjugate ==
  /\ calcW' = conjugate(calcZ)
  /\ calcOp' = "conjugate"
  /\ UNCHANGED << calcZ, calcResult >>
  /\ UNCHANGED << lessonVars, storeVars >>

CalcMultiply ==
  /\ calcResult' = multiply(calcZ, calcW)
  /\ calcOp' = "multiply"
  /\ UNCHANGED << calcZ, calcW >>
  /\ UNCHANGED << lessonVars, storeVars >>

\* const result = multiply(I, I) takes I for both operands.
CalcLoadI ==
  /\ calcZ' = I
  /\ calcW' = I
  /\ calcOp' = "load"
  /\ UNCHANGED calcResult
  /\ UNCHANGED << lessonVars, storeVars >>

InitCalc ==
  /\ InitLessonView /\ InitStores({NoUser}) /\ InitComplex(ComplexInputs)
  /\ recording = FALSE

NextComplex == CalcConjugate \/ CalcMultiply \/ CalcLoadI

SpecComplex == InitCalc /\ [][NextComplex]_vars

\* ------------------------------------------------------------------------
\* Properties
\* ------------------------------------------------------------------------

\* One physics step of every entity of a collection, by value.
StepValues(vals, s) == [ i \in 1 .. Len(vals) |-> PhysicsStep(vals[i], s) ]

\* n physics steps of a collection, by value.
RECURSIVE StepTimes(_, _, _)
StepTimes(vals, s, n) ==
  IF n = 0 THEN vals ELSE StepTimes(StepValues(vals, s), s, n - 1)

\* C1 Capacity invariant: at every operation boundary the history buffer
\* holds at most HISTORY_MAX snapshots.
CapacityInvariant == Len(history) <= HISTORY_MAX

\* A frame was recorded into a full buffer.
CapacityWitness == lastOp = "drawEvict" /\ Len(history) = HISTORY_MAX

\* C2 Drop-oldest: a pushHistory on a full buffer removes exactly the entry at
\* index 0, moves every other entry down by one and puts the new snapshot at
\* index capacity-1; below capacity nothing is removed and the new snapshot
\* lands at the old length.
DropOldest ==
  [][ lastOp' \in {"setup", "draw", "drawEvict"} =>
        IF Len(history) = HISTORY_MAX /\ lastOp' # "setup"
        THEN /\ Len(history') = HISTORY_MAX
             /\ \A i \in 1 .. HISTORY_MAX - 1 : HistoryValues'[i] = HistoryValues[i + 1]
             /\ HistoryValues'[HISTORY_MAX] = LiveValues'
        ELSE LET old == IF lastOp' = "setup" THEN << >> ELSE HistoryValues
             IN  /\ Len(history') = Len(old) + 1
                 /\ \A i \in 1 .. Len(old) : HistoryValues'[i] = old[i]
                 /\ HistoryValues'[Len(old) + 1] = LiveValues' ]_vars

\* Two evictions in a row: the buffer holds the last HISTORY_MAX frames of a
\* run of at least HISTORY_MAX + 2.
DropOldestWitness ==
  /\ lastOp = "drawEvict"
  /\ ticks >= HISTORY_MAX + 1
  /\ HistoryValues[1] # HistoryValues[HISTORY_MAX]

\* C3 Truncate-then-resume determinism: after a scrub to index k < N-1 and its
\* release the buffer has length k+1, and after j further ticks at the same
\* speed, none of which evicted, the snapshot at index k+i is the physics step
\* applied i times to snapshot k, for every i up to j.
TruncateThenResume ==
  resume.active =>
    /\ Len(history) = resume.k + 1 + resume.j
    /\ \A i \in 0 .. resume.j :
         HistoryValues[resume.k + 1 + i] = StepTimes(resume.base, resume.speed, i)

\* Two ticks after a release, and the entities moved.
TruncateThenResumeWitness ==
  /\ resume.active
  /\ resume.j >= 2
  /\ HistoryValues[resume.k + 1 + resume.j] # resume.base

\* C4 scrubEnd with cursor k truncates the buffer to the entries 0..k, leaves
\* the cursor at k and returns the mode to Advancing.
ScrubEndTruncates ==
  [][ (started /\ lastOp' = "release") =>
        /\ Len(history') = currentIndex' + 1
        /\ HistoryValues' = SubSeq(HistoryValues, 1, currentIndex' + 1)
        /\ ~scrubbing' ]_vars

\* C5 scrub(targetIndex) in Scrubbing mode on a non-empty buffer sets the
\* cursor to the target clamped to [0, length-1], makes the live entities
\* value-equal to the snapshot at the cursor and leaves the buffer and the
\* mode unchanged.
ScrubRestores ==
  [][ (lastOp' = "scrub" /\ scrubbing /\ Len(history) >= 1) =>
        /\ currentIndex' = ( IF lastArg' < 0 THEN 0
                             ELSE IF lastArg' > Len(history) - 1 THEN Len(history) - 1
                             ELSE lastArg' )
        /\ LiveValues' = HistoryValues[currentIndex' + 1]
        /\ HistoryValues' = HistoryValues
        /\ scrubbing' ]_vars

\* A scrub moved the cursor back and changed the live entities.
ScrubRestoresWitness ==
  /\ lastOp = "scrub"
  /\ scrubbing
  /\ Len(history) >= 2
  /\ currentIndex = lastArg
  /\ currentIndex < Len(history) - 1
  /\ LiveValues # HistoryValues[Len(history)]

\* C6 Clamping: on a buffer of length L >= 1, scrub(t) with t < 0 leaves the
\* state scrub(0) leaves, and scrub(t) with t > L-1 the state scrub(L-1) leaves.
ClampedScrub ==
  [][ (lastOp' = "scrub" /\ Len(history) >= 1) =>
        /\ lastArg' < 0 => Ctl' = Collect(handleScrub(Ctl, 0))
        /\ lastArg' > Len(history) - 1 =>
             Ctl' = Collect(handleScrub(Ctl, Len(history) - 1)) ]_vars

\* An out-of-range target was handled on a buffer of two or more frames.
ClampedScrubWitness ==
  /\ lastOp = "scrub"
  /\ Len(history) >= 2
  /\ lastArg < 0 \/ lastArg > Len(history) - 1

\* C7 Cursor range: after simulation start the cursor satisfies
\* 0 <= currentIndex <= length-1.
CursorInRange ==
  started => (0 <= currentIndex /\ currentIndex <= Len(history) - 1)

\* C8 Seeded buffer: after simulation start the buffer holds at least one
\* snapshot.
SeededBuffer == started => Len(history) >= 1

\* C9 Contiguity: every snapshot but the first is one physics step of the
\* snapshot before it.
Contiguity ==
  \A i \in 2 .. Len(history) :
    \E s \in Speeds : HistoryValues[i] = StepValues(HistoryValues[i - 1], s)

\* A full buffer whose last frames were recorded after a release.
ContiguityWitness ==
  /\ resume.active
  /\ resume.j >= 1
  /\ Len(history) = HISTORY_MAX
  /\ HistoryValues[1] # HistoryValues[HISTORY_MAX]

\* C10 Snapshot non-aliasing: no step changes the values of a snapshot that
\* stays in the buffer: a recording keeps every entry but the evicted one, and
\* a scrub, a release or any other handler keeps a prefix of the buffer.
SnapshotsImmutable ==
  [][ IF lastOp' = "drawEvict"
      THEN \A i \in 1 .. Len(history) - 1 : HistoryValues'[i] = HistoryValues[i + 1]
      ELSE IF lastOp' \in {"setup", "reset"}
      THEN TRUE
      ELSE \A i \in 1 .. Min(Len(history), Len(history')) :
             HistoryValues'[i] = HistoryValues[i] ]_vars

\* A physics step ran on entities that a scrub had restored from a snapshot,
\* and moved them.
SnapshotsImmutableWitness ==
  /\ resume.active
  /\ resume.j = 1
  /\ lastOp \in {"draw", "drawEvict"}
  /\ LiveValues # HistoryValues[resume.k + 1]

\* C11 Restore fidelity: restoring the snapshot captured from the live
\* entities yields as many entities, in the same order, each with the x, y,
\* vx and vy of the original.
RestoreFidelity ==
  LET s == snapshot(Ctl)
      r == restoreSnapshot([ Ctl EXCEPT !.heap = s.heap ], s.addrs)
  IN  /\ Len(r.particles) = Len(particles)
      /\ \A i \in 1 .. Len(particles) :
           /\ r.heap[r.particles[i]].x = heap[particles[i]].x
           /\ r.heap[r.particles[i]].y = heap[particles[i]].y
           /\ r.heap[r.particles[i]].vx = heap[particles[i]].vx
           /\ r.heap[r.particles[i]].vy = heap[particles[i]].vy

\* Live entities that a scrub restored from a snapshot: two of them, which
\* differ, with velocities that differ on the two axes.
RestoreFidelityWitness ==
  /\ lastOp = "scrub"
  /\ Len(particles) = 2
  /\ LiveValues[1] # LiveValues[2]
  /\ LiveValues[1].vx # LiveValues[1].vy
  /\ ticks >= 1

\* C12 A frame drawn in Advancing mode steps the physics of the live
\* entities, appends exactly one snapshot, of the state after the step, and
\* leaves the cursor at length-1.
AdvancingTick ==
  [][ lastOp' \in {"draw", "drawEvict"} =>
        /\ ~scrubbing
        /\ LiveValues' = StepValues(LiveValues, speed)
        /\ Len(history') = Min(Len(history) + 1, HISTORY_MAX)
        /\ HistoryValues'[Len(history')] = LiveValues'
        /\ currentIndex' = Len(history') - 1 ]_vars

\* A recorded frame in which an entity was reflected by a wall.
AdvancingTickWitness ==
  /\ lastOp \in {"draw", "drawEvict"}
  /\ Len(history) >= 2
  /\ \E i \in 1 .. Len(particles) :
       \/ LiveValues[i].vx # HistoryValues[Len(history) - 1][i].vx
       \/ LiveValues[i].vy # HistoryValues[Len(history) - 1][i].vy

\* C13 A frame drawn in Scrubbing mode performs no physics step and no
\* append: live entities, buffer and cursor are as before it.
ScrubbingTick ==
  [][ lastOp' = "drawScrubbing" =>
        /\ LiveValues' = LiveValues
        /\ HistoryValues' = HistoryValues
        /\ Len(history') = Len(history)
        /\ currentIndex' = currentIndex
        /\ scrubCurrentIndex' = scrubCurrentIndex
        /\ scrubHistoryLength' = scrubHistoryLength ]_vars

\* A frame drawn while the cursor is in the past and the entities move.
ScrubbingTickWitness ==
  /\ lastOp = "drawScrubbing"
  /\ scrubbing
  /\ currentIndex < Len(history) - 1
  /\ StepValues(LiveValues, speed) # LiveValues

\* C14 scrubStart in Advancing mode switches the mode to Scrubbing and
\* changes nothing else: buffer, cursor, live entities and play/pause state
\* are as before it.
ScrubStartOnlySwitches ==
  [][ (lastOp' \in {"scrubStart", "scrubStartAgain"} /\ ~scrubbing) =>
        /\ scrubbing'
        /\ Ctl' = [ Ctl EXCEPT !.scrubbing = TRUE ]
        /\ LiveValues' = LiveValues
        /\ HistoryValues' = HistoryValues
        /\ currentIndex' = currentIndex
        /\ playing' = playing
        /\ speed' = speed ]_vars

\* A scrubStart that found a running simulation with frames recorded.
ScrubStartOnlySwitchesWitness ==
  /\ lastOp = "scrubStart"
  /\ scrubbing
  /\ playing
  /\ Len(history) >= 2

\* C16 A scrubStart received in Scrubbing mode changes nothing, and the
\* scrubEnd that follows returns to Advancing.
ScrubStartIdempotent ==
  [][ /\ (lastOp' \in {"scrubStart", "scrubStartAgain"} /\ scrubbing) =>
           (Ctl' = Ctl /\ speed' = speed /\ ~handleScrubEnd(Ctl').scrubbing)
      /\ lastOp' = "release" => ~scrubbing' ]_vars

\* A second scrubStart with the cursor in the past.
ScrubStartIdempotentWitness ==
  /\ lastOp = "scrubStartAgain"
  /\ scrubbing
  /\ currentIndex < Len(history) - 1

ScrubIdempotent ==
  [][ (lastOp' = "scrub" /\ scrubbing /\ pending = << lastArg' >>) =>
        /\ currentIndex' = currentIndex
        /\ scrubCurrentIndex' = scrubCurrentIndex
        /\ LiveValues' = LiveValues
        /\ HistoryValues' = HistoryValues ]_vars

ScrubIdempotentWitness ==
  /\ lastOp = "scrub" /\ again /\ scrubbing
  /\ Len(history) >= 2 /\ currentIndex < Len(history) - 1
  /\ LiveValues = HistoryValues[currentIndex + 1]

\* C18 Immediately after handleReset the buffer is empty, the cursor is 0 and
\* the length and cursor shown to the scrubber bar are both 0.
ResetClears ==
  [][ lastOp' = "reset" =>
        /\ Len(history') = 0
        /\ currentIndex' = 0
        /\ scrubHistoryLength' = 0
        /\ scrubCurrentIndex' = 0 ]_vars

ResetClearsWitness ==
  /\ lastOp = "reset" /\ ticks >= 2
  /\ Len(history) = 0 /\ currentIndex = 0

\* C19 Every release ends the gesture in Advancing mode with playing = true,
\* paused before it or not; outside a gesture the mode is never Scrubbing.
ReleaseResumes ==
  [][ /\ lastOp' = "release" => (~scrubbing' /\ playing' /\ ~isDragging')
      /\ (isDragging /\ ~isDragging') => (~scrubbing' /\ playing')
      /\ ~isDragging' => ~scrubbing' ]_vars

ReleaseResumesWitness ==
  lastOp = "release" /\ wasPaused /\ playing /\ ~scrubbing /\ ~isDragging

IsZeroPercent(r) == r.finite /\ r.num = 0

InPercentRange(r) ==
  /\ r.finite
  /\ \/ r.den > 0 /\ 0 <= r.num /\ r.num <= 100 * r.den
     \/ r.den < 0 /\ 0 >= r.num /\ r.num >= 100 * r.den

\* C20 With the length and cursor the bar is given, the filled proportion is 0
\* for length 0, the playhead position is 0 for length 0 or 1, neither divides
\* by zero and both lie in [0, 100].
DegeneratePercentages ==
  LET filled   == filledPercent(scrubHistoryLength, HISTORY_MAX)
      playhead == playheadPercent(scrubCurrentIndex, scrubHistoryLength)
  IN  /\ scrubHistoryLength = 0 => IsZeroPercent(filled)
      /\ scrubHistoryLength \in {0, 1} => IsZeroPercent(playhead)
      /\ InPercentRange(filled)
      /\ InPercentRange(playhead)

DegeneratePercentagesWitness ==
  /\ lastOp = "release" /\ ticks >= 2
  /\ scrubHistoryLength = 1 /\ scrubCurrentIndex = 0
  /\ IsZeroPercent(playheadPercent(scrubCurrentIndex, scrubHistoryLength))

\* f is num / den rounded to the nearest integer, halves upwards (den > 0).
IsRound(f, num, den) ==
  2 * den * f <= 2 * num + den /\ 2 * num + den < 2 * den * (f + 1)

\* A press or a move, or the release of the mouse (the one release that
\* removes the window listeners).
EmitsScrub ==
  \/ lastOp' = "scrub"
  \/ lastOp' = "release" /\ listening /\ ~listening'

\* C21 With historyLength >= 1, the index handed to onScrub lies in
\* 0 .. historyLength-1, and every pointer position maps to
\* round(ratio * (historyLength-1)) with ratio clamped to [0,1]: the left edge
\* and anything left of it to 0, the right edge and beyond to historyLength-1.
PointerMapping ==
  [][ (EmitsScrub /\ scrubHistoryLength >= 1) =>
        /\ lastArg' \in 0 .. scrubHistoryLength - 1
        /\ \E x \in PointerOffsets :
             lastArg' = frameFromMouseX(x, scrubHistoryLength)
        /\ \A x \in PointerOffsets :
             LET f == frameFromMouseX(x, scrubHistoryLength)
                 n == Constrain(x, 0, BarWidth)
             IN  /\ f \in 0 .. scrubHistoryLength - 1
                 /\ IsRound(f, n * (scrubHistoryLength - 1), BarWidth)
                 /\ x <= 0 => f = 0
                 /\ x >= BarWidth => f = scrubHistoryLength - 1 ]_vars

PointerMappingWitness ==
  /\ lastOp = "scrub" /\ isDragging
  /\ scrubHistoryLength = 3 /\ lastArg = 1 /\ currentIndex = 1

\* C22 When initProgress reads the auth state, the listener has delivered the
\* initial user, so with a signed-in session the progress is taken from
\* Firestore and not from localStorage.
ProgressAfterAuth ==
  [][ (progress = "none" /\ progress' # "none" /\ currentUser # NoUser) =>
        /\ reports' = << >>
        /\ authUser = currentUser
        /\ progress' = "firestore" ]_vars

\* C23 multiply(z, conjugate(z)) has imaginary part 0 and real part
\* magnitudeSquared(z) = re*re + im*im, and multiply(I, I) is -1 + 0i.
ConjugateProduct ==
  /\ (calcOp = "multiply" /\ calcW = conjugate(calcZ)) =>
        /\ calcResult.im = 0
        /\ calcResult.re = magnitudeSquared(calcZ)
        /\ calcResult.re = calcZ.re * calcZ.re + calcZ.im * calcZ.im
  /\ (calcOp = "multiply" /\ calcZ = I /\ calcW = I) =>
        calcResult = complex(0 - 1, 0)

ConjugateProductWitness ==
  /\ calcOp = "multiply"
  /\ calcZ = complex(MaxPart, 1 - MaxPart)
  /\ calcW = conjugate(calcZ)
  /\ calcResult = complex(magnitudeSquared(calcZ), 0)

\* C24 While playing = false a frame callback runs no physics step and appends
\* nothing, and once the simulation has started the live entities, the buffer
\* and the cursor change only through a scrub, a release or Reset.
PausedFreezes ==
  [][ ~playing =>
        /\ lastOp' \in {"drawPaused", "drawScrubbing", "draw", "drawEvict"} =>
             (Ctl' = Ctl /\ ticks' = ticks)
        /\ ( /\ started
             /\ \/ LiveValues' # LiveValues
                \/ HistoryValues' # HistoryValues
                \/ currentIndex' # currentIndex ) =>
             lastOp' \in {"scrub", "release", "reset"} ]_vars

PausedFreezesWitness ==
  /\ lastOp = "drawPaused" /\ ~playing /\ ~scrubbing
  /\ Len(history) >= 2 /\ currentIndex = Len(history) - 1

\* Every onScrub of calls comes after an onScrubStart with no onScrubEnd
\* since; open tells whether such an onScrubStart came before calls.
RECURSIVE InGesture(_, _)
InGesture(calls, open) ==
  IF calls = << >> THEN TRUE
  ELSE /\ Head(calls) = "onScrub" => open
       /\ InGesture(Tail(calls),
                    IF Head(calls) = "onScrubStart" THEN TRUE
                    ELSE IF Head(calls) = "onScrubEnd" THEN FALSE
                    ELSE open)

CallCount(calls, name) == Cardinality({ i \in DOMAIN calls : calls[i] = name })

\* C25 onScrub is emitted only inside a gesture (after an onScrubStart not yet
\* followed by onScrubEnd); a press emits onScrubStart and then one onScrub; a
\* release during a drag emits exactly one onScrubEnd, a mouse release after a
\* final onScrub; moves and releases outside a drag emit nothing.
ScrubProtocol ==
  [][ /\ InGesture(emitted', scrubbing)
      /\ event' \in {"mousedown", "touchstart"} =>
           emitted' = << "onScrubStart", "onScrub" >>
      /\ event' \in {"mousemove", "touchmove"} =>
           (isDragging /\ emitted' = << "onScrub" >>)
      /\ event' \in {"mouseup", "touchend"} =>
           /\ isDragging
           /\ CallCount(emitted', "onScrubEnd") = 1
           /\ emitted'[Len(emitted')] = "onScrubEnd"
      /\ event' = "mouseup" => emitted' = << "onScrub", "onScrubEnd" >>
      /\ event' = "touchend" => emitted' = << "onScrubEnd" >>
      /\ event' = "outside" => (~isDragging /\ emitted' = << >> /\ Ctl' = Ctl)
      /\ CallCount(emitted', "onScrubStart") > 0 => isDragging'
      /\ CallCount(emitted', "onScrubEnd") > 0 => (~isDragging' /\ ~scrubbing') ]_vars

ScrubProtocolWitness ==
  /\ event = "mouseup" /\ emitted = << "onScrub", "onScrubEnd" >>
  /\ ~isDragging /\ ~scrubbing /\ lastOp = "release"
  /\ Len(history) >= 1 /\ Len(history) < ticks + 1

\* C26 Whenever the buffer is non-empty, the live entities are value-equal to
\* the snapshot stored at currentIndex.
LiveMatchesCursor ==
  Len(history) > 0 =>
    /\ currentIndex + 1 \in 1 .. Len(history)
    /\ LiveValues = HistoryValues[currentIndex + 1]

LiveMatchesCursorWitness ==
  /\ lastOp = "drawEvict" /\ Len(history) = HISTORY_MAX
  /\ currentIndex = HISTORY_MAX - 1
  /\ LiveValues = HistoryValues[HISTORY_MAX]
  /\ LiveValues # HistoryValues[HISTORY_MAX - 1]

\* C27 The length and the cursor shown to the scrubber bar are the buffer's
\* length and the controller's cursor.
MirrorsFresh ==
  /\ scrubHistoryLength = Len(history)
  /\ scrubCurrentIndex = currentIndex

MirrorsFreshWitness ==
  /\ lastOp = "release" /\ resume.active
  /\ Len(history) < ticks + 1
  /\ scrubHistoryLength = Len(history) /\ scrubCurrentIndex = currentIndex

\* C28 The controller is in Scrubbing mode exactly when the bar has a drag in
\* progress.
ModeFollowsDrag == scrubbing <=> isDragging

ModeFollowsDragWitness ==
  /\ lastOp = "reset" /\ ticks >= 1
  /\ scrubbing /\ isDragging /\ Len(history) = 0

\* C29 A scrub processed while the buffer is empty restores nothing and leaves
\* the live entities and the buffer as they were, and the release that follows
\* leaves the buffer empty.
EmptyScrubHarmless ==
  [][ /\ (lastOp' = "scrub" /\ Len(history) = 0) =>
           /\ particles' = particles
           /\ LiveValues' = LiveValues
           /\ Len(history') = 0
           /\ currentIndex' = 0
      /\ (lastOp' = "release" /\ Len(history) = 0) =>
           /\ LiveValues' = LiveValues
           /\ Len(history') = 0
           /\ currentIndex' = currentIndex ]_vars

EmptyScrubHarmlessWitness ==
  /\ lastOp = "release" /\ Len(history) = 0 /\ currentIndex = 0
  /\ started /\ ticks >= 1 /\ ~scrubbing /\ playing

\* C30 The store never holds a signed-in user together with isGuest = true,
\* and when the listener has just reported no user, or logout has just
\* completed, the store is in guest mode with loading = false.
AuthConsistency ==
  /\ ~(authUser # NoUser /\ isGuest)
  /\ storeOp \in {"reportNone", "logoutDone"} =>
       (authUser = NoUser /\ isGuest /\ ~authLoading)

\* C30, amended: the store never holds a signed-in user together with
\* isGuest = true; after a report of no user and after logout it is in guest
\* mode; loading is false after logout, and after a report of no user unless
\* the store was in guest mode already, when the report leaves loading as it
\* was (true while a loginWithGoogle has not finished).
AuthConsistencyAmended ==
  [][ /\ ~(authUser' # NoUser /\ isGuest')
      /\ storeOp' \in {"reportNone", "logoutDone"} =>
           (authUser' = NoUser /\ isGuest')
      /\ storeOp' = "logoutDone" => ~authLoading'
      /\ storeOp' = "reportNone" =>
           IF isGuest THEN authLoading' = authLoading ELSE ~authLoading' ]_vars

AuthConsistencyWitness ==
  /\ storeOp = "reportNone" /\ authUser = NoUser /\ isGuest
  /\ authLoading /\ popup

====
